---------------------------- MODULE Spec2Model ----------------------------
(***************************************************************************)
(* A model of vedro-debug-prompt: the PromptBuilder (a pure function of a  *)
(* failed scenario result and a project directory to a markdown document)  *)
(* and the DebugPromptPlugin that calls it on every ScenarioFailedEvent.   *)
(*                                                                         *)
(* Text is a sequence of tokens (strings).  A token is either one          *)
(* character or a run of characters that no operation of the program looks *)
(* inside; str.replace, str.format, splitlines, rstrip and the section     *)
(* headers all act on whole tokens.                                        *)
(***************************************************************************)
EXTENDS Integers, Sequences, FiniteSets, TLC

VARIABLES
    global_config,  \* DebugPromptPlugin._global_config: None or a config
    tb_filter,      \* PromptBuilder._tb_filter: "None" or "TracebackFilter"
    calls,          \* the PromptBuilder.build calls the plugin made, in order
    files,          \* the transient files written, in order
    delivered,      \* one record per ScenarioFailedEvent handled
    pc,             \* position of the function under test: idle, call, done
    args,           \* the arguments of the function under test
    result          \* what the function under test returned or raised

vars == <<global_config, tb_filter, calls, files, delivered, pc, args, result>>

---------------------------------------------------------------------------
(* Bounds of the model.                                                    *)

MaxNameLen == 2     \* characters in a directory name of a project root
MaxLineLen == 5     \* characters in a line handed to _cleanup_line
MaxFrames == 5      \* frames in a traceback
MaxTbLimit == 4     \* largest tb_limit a builder is configured with
MaxSrcLines == 2    \* lines in a scenario's source block or file
MaxSteps == 2       \* step results in a scenario result
MaxEvents == 3      \* notifications the host delivers in one run

---------------------------------------------------------------------------
(* Sequences and text.                                                     *)

Nil == "Nil"        \* niltype.Nil: the attribute is absent
None == "None"      \* Python's None, where the other values are strings
NoObject == [is_none |-> TRUE]  \* Python's None, where the others are records

SeqsUpTo(S, n) == UNION {[1..k -> S] : k \in 0..n}

RECURSIVE Concat(_)
Concat(ss) == IF ss = <<>> THEN <<>> ELSE Head(ss) \o Concat(Tail(ss))

RECURSIVE Join(_, _)
Join(sep, ss) ==
    IF ss = <<>> THEN <<>>
    ELSE IF Len(ss) = 1 THEN Head(ss)
    ELSE Head(ss) \o sep \o Join(sep, Tail(ss))

Count(text, tok) == Cardinality({i \in 1..Len(text) : text[i] = tok})

IsPrefix(p, s) == Len(p) <= Len(s) /\ SubSeq(s, 1, Len(p)) = p

Occurs(sub, text) ==
    \E i \in 1..(Len(text) - Len(sub) + 1) : SubSeq(text, i, i + Len(sub) - 1) = sub

linesep == "\n"

Whitespace == {" ", "\n", "\f", "    "}

\* str.strip on the right
RECURSIVE RStrip(_)
RStrip(text) ==
    IF text # <<>> /\ text[Len(text)] \in Whitespace
    THEN RStrip(SubSeq(text, 1, Len(text) - 1))
    ELSE text

\* str.replace(old, new) for a non-empty old: the leftmost occurrence is
\* replaced, the scan resumes after it, and what was inserted is not rescanned
RECURSIVE Replace(_, _, _)
Replace(text, old, new) ==
    IF Len(text) < Len(old) THEN text
    ELSE IF SubSeq(text, 1, Len(old)) = old
         THEN new \o Replace(SubSeq(text, Len(old) + 1, Len(text)), old, new)
         ELSE <<Head(text)>> \o Replace(Tail(text), old, new)

---------------------------------------------------------------------------
(* Paths.  A path is absolute: the sequence of its components, each a      *)
(* non-empty text; str(path) puts "/" before every component.              *)

RECURSIVE PathStr(_)
PathStr(path) ==
    IF path = <<>> THEN <<>> ELSE <<"/">> \o Head(path) \o PathStr(Tail(path))

\* str(Path): the filesystem root is "/"
StrOfPath(path) == IF path = <<>> THEN <<"/">> ELSE PathStr(path)

\* str of a relative path: no leading "/", and "." when nothing is left
StrOfRelPath(path) == IF path = <<>> THEN <<".">> ELSE Tail(PathStr(path))

\* Path.relative_to(base): ValueError unless base is an ancestor of (or is) path
RelativeTo(path, base) ==
    IF IsPrefix(base, path)
    THEN [raised |-> None, value |-> SubSeq(path, Len(base) + 1, Len(path))]
    ELSE [raised |-> "ValueError", value |-> <<>>]

---------------------------------------------------------------------------
(* PromptBuilder._cleanup_line                                             *)

CleanupFirstOnly(line, project_dir) ==
    LET old == StrOfPath(project_dir)
        hits == {i \in 1..(Len(line) - Len(old) + 1) :
                    SubSeq(line, i, i + Len(old) - 1) = old}
    IN  IF hits = {} THEN line
        ELSE LET i == CHOOSE j \in hits : \A k \in hits : j <= k
             IN  SubSeq(line, 1, i - 1) \o <<".">>
                 \o SubSeq(line, i + Len(old), Len(line))

_cleanup_line(line, project_dir) == Replace(line, StrOfPath(project_dir), <<".">>)

---------------------------------------------------------------------------
(* Exceptions.  An exception value is its class, str(value) and the three  *)
(* attributes vedro's assert rewriter may set; a value is Nil when the     *)
(* attribute is absent.  Values are None, the ints 1 and 2, the str "s".   *)

Values == {"None", "1", "2", "s"}

\* repr(value): the debug form, quotes around a str
Repr(v) == IF v = "s" THEN "'s'" ELSE v

AssertionClasses == {"AssertionError", "CustomAssertion"}

IsAssertionError(exc_value) == exc_value.cls \in AssertionClasses

(* PromptBuilder._format_exception_message                                 *)

FormatExceptionBothAbsent(exc_value) ==
    IF ~IsAssertionError(exc_value) THEN exc_value.str
    ELSE IF exc_value.left = Nil THEN exc_value.str
    ELSE IF (exc_value.right = Nil) /\ (exc_value.operator = Nil)
         THEN <<exc_value.cls, ": assert ", Repr(exc_value.left)>>
         ELSE <<exc_value.cls, ": assert ", Repr(exc_value.left), " ",
                exc_value.operator, " ", Repr(exc_value.right)>>

_format_exception_message(exc_value) ==
    IF ~IsAssertionError(exc_value) THEN exc_value.str
    ELSE IF exc_value.left = Nil THEN exc_value.str
    ELSE IF (exc_value.right = Nil) \/ (exc_value.operator = Nil)
         THEN <<exc_value.cls, ": assert ", Repr(exc_value.left)>>
         ELSE <<exc_value.cls, ": assert ", Repr(exc_value.left), " ",
                exc_value.operator, " ", Repr(exc_value.right)>>

(* PromptBuilder._get_error_message                                        *)

_get_error_message(exc_info, project_dir) ==
    _cleanup_line(_format_exception_message(exc_info.value), project_dir)

---------------------------------------------------------------------------
(* Tracebacks.  A traceback is the sequence of its frames, outermost       *)
(* first; a frame is its file, line number, function and code text.        *)

VedroRoot == <<<<"site-packages">>, <<"vedro">>>>

\* TracebackFilter([vedro]).filter_tb: drops the frames whose file lies
\* under the vedro package
IsInternal(frame) == IsPrefix(VedroRoot, frame.filename)

FilterTb(traceback) == SelectSeq(traceback, LAMBDA fr : ~IsInternal(fr))

\* traceback.StackSummary.extract with limit: the first limit frames for a
\* limit >= 0, the last -limit frames for a negative one
ExtractTb(traceback, limit) ==
    LET n == Len(traceback)
    IN  IF limit >= 0
        THEN SubSeq(traceback, 1, IF limit < n THEN limit ELSE n)
        ELSE SubSeq(traceback, IF n + limit + 1 > 1 THEN n + limit + 1 ELSE 1, n)

FormatFrame(fr) ==
    <<"  File \"">> \o StrOfPath(fr.filename)
        \o <<"\", line ", fr.lineno, ", in ", fr.name, "\n", "    ">>
        \o fr.line \o <<"\n">>

SameFrame(a, b) ==
    a.filename = b.filename /\ a.lineno = b.lineno /\ a.name = b.name

\* traceback._RECURSIVE_CUTOFF: a frame repeated more often is collapsed
RecursiveCutoff == 3

RepeatLine(n) ==
    <<"  [Previous line repeated " \o ToString(n)
        \o (IF n > 1 THEN " more times]" ELSE " more time]"), "\n">>

Flush(count) ==
    IF count > RecursiveCutoff THEN <<RepeatLine(count - RecursiveCutoff)>> ELSE <<>>

\* traceback.StackSummary.format from frame i on, count frames equal to
\* frame i-1 having been seen: one text per rendered frame or repeat note
RECURSIVE FormatFrom(_, _, _)
FormatFrom(frames, i, count) ==
    IF i > Len(frames) THEN Flush(count)
    ELSE IF i = 1 \/ ~SameFrame(frames[i - 1], frames[i])
         THEN Flush(count) \o <<FormatFrame(frames[i])>> \o FormatFrom(frames, i + 1, 1)
         ELSE (IF count + 1 > RecursiveCutoff THEN <<>> ELSE <<FormatFrame(frames[i])>>)
              \o FormatFrom(frames, i + 1, count + 1)

\* traceback.format_tb(tb, limit=limit)
format_tb(traceback, limit) == FormatFrom(ExtractTb(traceback, limit), 1, 0)

(* PromptBuilder._get_error_tb: the list cleaned, then the joined text   *)

LimitBeforeFilter(exc_info, project_dir, tb_limit) ==
    LET traceback == FilterTb(ExtractTb(exc_info.traceback, tb_limit))
        tb_lines == FormatFrom(traceback, 1, 0)
    IN  [i \in 1..Len(tb_lines) |-> _cleanup_line(tb_lines[i], project_dir)]

CleanedTbLines(exc_info, project_dir, tb_limit) ==
    LET traceback == FilterTb(exc_info.traceback)
        tb_lines == format_tb(traceback, tb_limit)
    IN  [i \in 1..Len(tb_lines) |-> _cleanup_line(tb_lines[i], project_dir)]

_get_error_tb(exc_info, project_dir, tb_limit) ==
    RStrip(Concat(CleanedTbLines(exc_info, project_dir, tb_limit)))

---------------------------------------------------------------------------
(* Source text.  A source line is its indentation (in indent units) and    *)
(* its body; an empty body is a whitespace-only line.  A body may hold a   *)
(* form feed, which str.splitlines takes for a line boundary and           *)
(* textwrap.dedent and inspect do not.                                     *)

IndentUnit == "    "

Indent(n) == [i \in 1..n |-> IndentUnit]

LineText(l) == Indent(l.indent) \o l.body \o <<"\n">>

LinesText(lines) == Concat([i \in 1..Len(lines) |-> LineText(lines[i])])

LineBreaks == {"\n", "\f"}

\* str.splitlines(keepends=True), and the split at "\n" alone
RECURSIVE SplitOn(_, _)
SplitOn(text, seps) ==
    LET hits == {i \in 1..Len(text) : text[i] \in seps}
    IN  IF text = <<>> THEN <<>>
        ELSE IF hits = {} THEN <<text>>
        ELSE LET i == CHOOSE j \in hits : \A k \in hits : j <= k
             IN  <<SubSeq(text, 1, i)>> \o SplitOn(SubSeq(text, i + 1, Len(text)), seps)

splitlines(text) == SplitOn(text, LineBreaks)

\* textwrap.dedent of the joined lines: whitespace-only lines become empty,
\* the others lose the indentation common to them all
dedent(lines) ==
    LET nonblank == {i \in 1..Len(lines) : lines[i].body # <<>>}
        margin == IF nonblank = {} THEN 0
                  ELSE CHOOSE m \in {lines[i].indent : i \in nonblank} :
                           \A i \in nonblank : m <= lines[i].indent
    IN  LinesText([i \in 1..Len(lines) |->
                     IF lines[i].body = <<>> THEN [indent |-> 0, body |-> <<>>]
                     ELSE [indent |-> lines[i].indent - margin, body |-> lines[i].body]])

\* f"{n:4d}"
Pad4(n) ==
    IF n < 10 THEN "   " \o ToString(n)
    ELSE IF n < 100 THEN "  " \o ToString(n)
    ELSE IF n < 1000 THEN " " \o ToString(n)
    ELSE ToString(n)

(* PromptBuilder._number_lines                                             *)

_number_lines(lines, start) ==
    Concat([i \in 1..Len(lines) |-> <<Pad4(start + (i - 1)), ": ">> \o lines[i]])

\* inspect.getsourcelines(scenario._orig_scenario) and Path.read_text:
\* either raises when the artifact or the file cannot be had
GetSourceLines(scenario) ==
    IF scenario.orig.ok
    THEN [raised |-> None, lines |-> scenario.orig.lines, start |-> scenario.orig.start]
    ELSE [raised |-> "OSError", lines |-> <<>>, start |-> 0]

ReadText(scenario) ==
    IF scenario.file.readable
    THEN [raised |-> None, value |-> LinesText(scenario.file.lines)]
    ELSE [raised |-> "OSError", value |-> <<>>]

(* PromptBuilder._get_scenario_source.  file_read tells whether read_text  *)
(* was called; raised is the exception that leaves the method.             *)

SourceNoInnerTry(scenario) ==
    LET got == GetSourceLines(scenario)
        raw == ReadText(scenario)
    IN  IF got.raised = None
        THEN LET dedented == splitlines(dedent(got.lines))
             IN  [source |-> _number_lines(dedented, got.start), start |-> got.start,
                  end |-> got.start + Len(dedented) - 1,
                  file_read |-> FALSE, raised |-> None]
        ELSE IF raw.raised = None
        THEN LET lines == splitlines(raw.value)
             IN  [source |-> _number_lines(lines, 1), start |-> 1, end |-> Len(lines),
                  file_read |-> TRUE, raised |-> None]
        ELSE [source |-> <<>>, start |-> 0, end |-> 0,
              file_read |-> TRUE, raised |-> raw.raised]

_get_scenario_source(scenario) ==
    LET got == GetSourceLines(scenario)
        raw == ReadText(scenario)
    IN  IF got.raised = None
        THEN LET dedented == splitlines(dedent(got.lines))
             IN  [source |-> _number_lines(dedented, got.start), start |-> got.start,
                  end |-> got.start + Len(dedented) - 1,
                  file_read |-> FALSE, raised |-> None]
        ELSE IF raw.raised = None
        THEN LET lines == splitlines(raw.value)
             IN  [source |-> _number_lines(lines, 1), start |-> 1, end |-> Len(lines),
                  file_read |-> TRUE, raised |-> None]
        ELSE [source |-> <<>>, start |-> -1, end |-> -1,
              file_read |-> TRUE, raised |-> None]

---------------------------------------------------------------------------
(* Steps, variables, runtime, system prompt and template.                  *)

(* PromptBuilder._get_error: the exc_info of the first step that has one   *)

_get_error(scenario_result) ==
    LET steps == scenario_result.step_results
        hits == {i \in 1..Len(steps) : steps[i].exc_info # NoObject}
    IN  IF hits = {} THEN NoObject
        ELSE steps[CHOOSE i \in hits : \A j \in hits : i <= j].exc_info

(* PromptBuilder._get_scenario_name                                        *)

_get_scenario_name(scenario) == scenario.subject

\* f"{elapsed:.2f}" of a duration given in hundredths of a second
Fmt2f(elapsed) ==
    ToString(elapsed \div 100) \o "."
        \o (IF elapsed % 100 < 10 THEN "0" ELSE "") \o ToString(elapsed % 100)

(* PromptBuilder._get_scenario_steps                                       *)

_get_scenario_steps(scenario_result) ==
    LET steps == scenario_result.step_results
        line(st) == <<"[", st.status, "] ">> \o st.step_name
                        \o <<" (", Fmt2f(st.elapsed), "s)">>
    IN  Join(<<linesep>>, [i \in 1..Len(steps) |-> <<"- ">> \o line(steps[i])])

(* PromptBuilder._get_variables.  The scope is the sequence of its         *)
(* (key, value) items in insertion order; a key is a text.                 *)

StartsWith(text, tok) == text # <<>> /\ Head(text) = tok

VariablesKeepHidden(scenario_result) ==
    LET items == scenario_result.scope
        variables == [i \in 1..Len(items) |-> items[i].key \o <<" = ", Repr(items[i].val)>>]
    IN  IF variables # <<>> THEN Join(<<linesep>>, variables)
        ELSE <<"No variables found">>

_get_variables(scenario_result) ==
    LET items == SelectSeq(scenario_result.scope, LAMBDA it : ~StartsWith(it.key, "_"))
        variables == [i \in 1..Len(items) |-> items[i].key \o <<" = ", Repr(items[i].val)>>]
    IN  IF variables # <<>> THEN Join(<<linesep>>, variables)
        ELSE <<"No variables found">>

\* the placeholder of a suppressed VARIABLES section, U+2014 in the source
EmDash == "--"

(* PromptBuilder._get_runtime: fixed by the interpreter and the host; the  *)
(* separator is U+00B7 in the source                                       *)

_get_runtime == <<"Python ", "3.12.1", " . Vedro ", "1.13.0", " . ", "Linux-x86_64">>

(* PromptBuilder._get_system_prompt                                        *)

_get_system_prompt ==
    <<"You are a senior Python engineer helping me debug a failed automated test.", "\n",
      "- Analyse the information below.", "\n",
      "- Identify the most likely root cause.", "\n",
      "- Propose the **smallest** code or test change that would make the test pass.", "\n",
      "- Answer in markdown with the sections:", "\n",
      "  1. **Root cause**", "\n",
      "  2. **Suggested fix (code)** - show only the diff or patched snippet", "\n",
      "  3. **Why this works**">>

Headers ==
    <<"## SYSTEM", "## SCENARIO", "## STEPS", "## SOURCE",
      "## FAILURE", "## TRACEBACK", "## VARIABLES">>

Fields ==
    {"{system_prompt}", "{scenario_name}", "{scenario_loc}", "{runtime}",
     "{scenario_steps}", "{scenario_source}", "{error_message}", "{error_tb}",
     "{variables}"}

\* the code fence of markdown, three backquotes in the source
Fence == "<fence>"
FencePython == "<fence>python"

(* PromptBuilder._get_prompt_template, dedented and stripped               *)

TemplateFailureTwice ==
    <<"## SYSTEM", "\n", "{system_prompt}", "\n", "\n",
      "## SCENARIO", "\n",
      "- **Name:** ", "{scenario_name}", "\n",
      "- **Location:** ", "{scenario_loc}", "\n",
      "- **Runtime:** ", "{runtime}", "\n", "\n",
      "## STEPS", "\n", "{scenario_steps}", "\n", "\n",
      "## SOURCE", "\n", FencePython, "\n", "{scenario_source}", "\n", Fence, "\n", "\n",
      "## FAILURE", "\n", "{error_message}", "\n", "\n",
      "## FAILURE", "\n", FencePython, "\n", "{error_tb}", "\n", Fence, "\n", "\n",
      "## VARIABLES", "\n", "{variables}">>

_get_prompt_template ==
    <<"## SYSTEM", "\n", "{system_prompt}", "\n", "\n",
      "## SCENARIO", "\n",
      "- **Name:** ", "{scenario_name}", "\n",
      "- **Location:** ", "{scenario_loc}", "\n",
      "- **Runtime:** ", "{runtime}", "\n", "\n",
      "## STEPS", "\n", "{scenario_steps}", "\n", "\n",
      "## SOURCE", "\n", FencePython, "\n", "{scenario_source}", "\n", Fence, "\n", "\n",
      "## FAILURE", "\n", "{error_message}", "\n", "\n",
      "## TRACEBACK", "\n", FencePython, "\n", "{error_tb}", "\n", Fence, "\n", "\n",
      "## VARIABLES", "\n", "{variables}">>

\* str.format with keyword arguments: every field is replaced by its
\* argument in one pass; an argument's text is not looked at again
Format(template, kwargs) ==
    Concat([i \in 1..Len(template) |->
              IF template[i] \in Fields THEN kwargs[template[i]] ELSE <<template[i]>>])

---------------------------------------------------------------------------
(* PromptBuilder.build.  builder is the instance's options; the result is  *)
(* the exception that leaves build (None when it returns), the document,   *)
(* the arguments handed to the template and the stages that were reached.  *)

NoDocument(raised, reached) ==
    [raised |-> raised, doc |-> <<>>, kwargs |-> <<>>, reached |-> reached]

BuildKwargs(scenario_result, project_dir, builder, exc_info, src, scenario_path) ==
    [f \in Fields |->
        CASE f = "{system_prompt}" -> _get_system_prompt
          [] f = "{scenario_name}" -> _get_scenario_name(scenario_result.scenario)
          [] f = "{scenario_loc}" -> StrOfRelPath(scenario_path) \o <<":", ToString(src.start)>>
          [] f = "{runtime}" -> _get_runtime
          [] f = "{scenario_steps}" -> _get_scenario_steps(scenario_result)
          [] f = "{scenario_source}" -> src.source
          [] f = "{error_message}" -> _get_error_message(exc_info, project_dir)
          [] f = "{error_tb}" -> _get_error_tb(exc_info, project_dir, builder.tb_limit)
          [] f = "{variables}" -> IF builder.include_variables
                                  THEN _get_variables(scenario_result)
                                  ELSE <<EmDash>>]

BuildStages == {"_get_error", "_get_scenario_source", "relative_to", "filter_tb", "format"}

BuildNoErrorCheck(scenario_result, project_dir, builder) ==
    LET found == _get_error(scenario_result)
        exc_info == IF found = NoObject
                    THEN [value |-> [cls |-> "ValueError", str |-> <<>>, left |-> Nil,
                                     right |-> Nil, operator |-> Nil],
                          traceback |-> <<>>]
                    ELSE found
        src == _get_scenario_source(scenario_result.scenario)
        rel == RelativeTo(scenario_result.scenario.path, project_dir)
        kwargs == BuildKwargs(scenario_result, project_dir, builder, exc_info, src, rel.value)
    IN  IF rel.raised # None
        THEN NoDocument(rel.raised, {"_get_error", "_get_scenario_source", "relative_to"})
        ELSE [raised |-> None, doc |-> Format(_get_prompt_template, kwargs),
              kwargs |-> kwargs, reached |-> BuildStages]

BuildAlwaysVariables(scenario_result, project_dir, builder) ==
    LET exc_info == _get_error(scenario_result)
        src == _get_scenario_source(scenario_result.scenario)
        rel == RelativeTo(scenario_result.scenario.path, project_dir)
        kwargs == BuildKwargs(scenario_result, project_dir,
                              [builder EXCEPT !.include_variables = TRUE],
                              exc_info, src, rel.value)
    IN  IF exc_info = NoObject THEN NoDocument("AssertionError", {"_get_error"})
        ELSE IF rel.raised # None
        THEN NoDocument(rel.raised, {"_get_error", "_get_scenario_source", "relative_to"})
        ELSE [raised |-> None, doc |-> Format(_get_prompt_template, kwargs),
              kwargs |-> kwargs, reached |-> BuildStages]

build(scenario_result, project_dir, builder) ==
    LET exc_info == _get_error(scenario_result)
        src == _get_scenario_source(scenario_result.scenario)
        rel == RelativeTo(scenario_result.scenario.path, project_dir)
        kwargs == BuildKwargs(scenario_result, project_dir, builder, exc_info, src, rel.value)
    IN  IF exc_info = NoObject THEN NoDocument("AssertionError", {"_get_error"})
        ELSE IF rel.raised # None
        THEN NoDocument(rel.raised, {"_get_error", "_get_scenario_source", "relative_to"})
        ELSE [raised |-> None, doc |-> Format(_get_prompt_template, kwargs),
              kwargs |-> kwargs, reached |-> BuildStages]

---------------------------------------------------------------------------
(* PromptBuilder.__init__: the default options.                            *)

DefaultTbLimit == 10

DefaultBuilder == [include_variables |-> FALSE, tb_limit |-> DefaultTbLimit]

---------------------------------------------------------------------------
(* The inputs the model draws from.                                        *)

ProjectDir == <<<<"proj">>>>
OtherDir == <<<<"other">>>>

VedroFrame ==
    [filename |-> VedroRoot \o <<<<"_runner.py">>>>, lineno |-> "42",
     name |-> "run_step", line |-> <<"await step()">>]

UserFrame(name) ==
    [filename |-> ProjectDir \o <<<<"login.py">>>>, lineno |-> "7",
     name |-> name, line |-> <<"assert token">>]

Frames == {VedroFrame, UserFrame("f"), UserFrame("g")}

PlainError ==
    [cls |-> "ValueError", str |-> <<"invalid token">>,
     left |-> Nil, right |-> Nil, operator |-> Nil]

\* an error whose message names a file of the project and holds a header line
HeaderError ==
    [cls |-> "ValueError",
     str |-> <<"bad ">> \o StrOfPath(ProjectDir \o <<<<"login.py">>>>)
                \o <<"\n", "## TRACEBACK">>,
     left |-> Nil, right |-> Nil, operator |-> Nil]

ExcInfos ==
    {[value |-> PlainError, traceback |-> <<VedroFrame, UserFrame("f")>>],
     [value |-> HeaderError, traceback |-> <<UserFrame("f"), UserFrame("g")>>]}

StepResults ==
    {[step_name |-> <<"Enter credentials">>, status |-> "passed", elapsed |-> 12, exc_info |-> e]
        : e \in ExcInfos \cup {NoObject}}
    \cup
    {[step_name |-> <<"Submit">>, status |-> "failed", elapsed |-> 5, exc_info |-> e]
        : e \in ExcInfos \cup {NoObject}}

Indents == 0..2
Bodies == {<<>>, <<"x">>, <<"y", "\f", "z">>}
SourceLines == [indent : Indents, body : Bodies]
SourceTexts == SeqsUpTo(SourceLines, MaxSrcLines)

NoArtifact == [ok |-> FALSE, lines |-> <<>>, start |-> 0]
NoFile == [readable |-> FALSE, lines |-> <<>>]

SourceFiles == {NoFile} \cup {[readable |-> TRUE, lines |-> l] : l \in SourceTexts}

\* the artifact is a block of the file, or was cached before the file went
Artifacts(file) ==
    {NoArtifact} \cup
    (IF file.readable
     THEN {[ok |-> TRUE, lines |-> SubSeq(file.lines, a, b), start |-> a] :
              a \in 1..Len(file.lines), b \in 1..Len(file.lines)} \ 
          {[ok |-> TRUE, lines |-> <<>>, start |-> a] : a \in 1..Len(file.lines)}
     ELSE {[ok |-> TRUE, lines |-> l, start |-> a] :
              l \in SourceTexts \ {<<>>}, a \in {1, 3}})

Subjects == {<<"Login with valid credentials">>, <<"## STEPS">>}

ScenarioPaths ==
    {ProjectDir \o <<<<"tests">>, <<"login.py">>>>, OtherDir \o <<<<"login.py">>>>}

SourceScenarios ==
    UNION {{[subject |-> <<"Login with valid credentials">>,
             path |-> ProjectDir \o <<<<"tests">>, <<"login.py">>>>,
             orig |-> o, file |-> f] : o \in Artifacts(f)} : f \in SourceFiles}

BuildFile ==
    [readable |-> TRUE,
     lines |-> <<[indent |-> 1, body |-> <<"class Scenario:">>],
                 [indent |-> 2, body |-> <<"## SOURCE">>]>>]

BuildSources ==
    {[orig |-> [ok |-> TRUE, lines |-> BuildFile.lines, start |-> 1], file |-> BuildFile],
     [orig |-> NoArtifact, file |-> BuildFile],
     [orig |-> NoArtifact, file |-> NoFile]}

BuildScenarios ==
    {[subject |-> s, path |-> p, orig |-> src.orig, file |-> src.file] :
        s \in Subjects, p \in ScenarioPaths, src \in BuildSources}

Keys == {<<"_", "hidden">>, <<"x">>, <<"y">>}
ScopeValues == {"2", "s"}
Scopes ==
    {sc \in SeqsUpTo([key : Keys, val : ScopeValues], Cardinality(Keys)) :
        \A i, j \in 1..Len(sc) : i # j => sc[i].key # sc[j].key}

ExampleScope ==
    <<[key |-> <<"_", "hidden">>, val |-> "2"], [key |-> <<"x">>, val |-> "2"],
      [key |-> <<"y">>, val |-> "s"]>>

BuildScopes == {<<>>, ExampleScope}

ScenarioResults ==
    [scenario : BuildScenarios, step_results : SeqsUpTo(StepResults, MaxSteps),
     scope : BuildScopes]

Chars == {"/", ".", "a"}
Names == SeqsUpTo({".", "a"}, MaxNameLen) \ {<<>>, <<".">>, <<".", ".">>}
CleanupDirs == {<<>>} \cup {<<n>> : n \in Names}
CleanupLines == SeqsUpTo(Chars, MaxLineLen)

ExcValues ==
    [cls : {"ValueError"} \cup AssertionClasses, str : {<<"boom">>, <<>>},
     left : Values \cup {Nil}, right : Values \cup {Nil}, operator : {Nil, "==", "<"}]

TbLimits == {-2, -1} \cup 0..MaxTbLimit

---------------------------------------------------------------------------
(* The functions under test, each applied once to arguments drawn by Init. *)

PluginIdle ==
    global_config = NoObject /\ calls = <<>> /\ files = <<>> /\ delivered = <<>>

InitCleanup ==
    /\ PluginIdle /\ tb_filter = None /\ pc = "call" /\ result = None
    /\ args \in [line : CleanupLines, project_dir : CleanupDirs]

ApplyCleanup ==
    /\ pc = "call"
    /\ result' = _cleanup_line(args.line, args.project_dir)
    /\ pc' = "done"
    /\ UNCHANGED <<global_config, tb_filter, calls, files, delivered, args>>

SpecCleanup == InitCleanup /\ [][ApplyCleanup]_vars

InitFormatException ==
    /\ PluginIdle /\ tb_filter = None /\ pc = "call" /\ result = None
    /\ args \in ExcValues

ApplyFormatException ==
    /\ pc = "call"
    /\ result' = _format_exception_message(args)
    /\ pc' = "done"
    /\ UNCHANGED <<global_config, tb_filter, calls, files, delivered, args>>

SpecFormatException == InitFormatException /\ [][ApplyFormatException]_vars

InitErrorTb ==
    /\ PluginIdle /\ tb_filter = None /\ pc = "call" /\ result = None
    /\ args \in [exc_info : [value : {PlainError}, traceback : SeqsUpTo(Frames, MaxFrames)],
                 project_dir : {ProjectDir}, tb_limit : TbLimits]

\* the filter is made on first use and kept
ApplyErrorTb ==
    /\ pc = "call"
    /\ tb_filter' = "TracebackFilter"
    /\ result' = [lines |-> CleanedTbLines(args.exc_info, args.project_dir, args.tb_limit),
                  text |-> _get_error_tb(args.exc_info, args.project_dir, args.tb_limit)]
    /\ pc' = "done"
    /\ UNCHANGED <<global_config, calls, files, delivered, args>>

SpecErrorTb == InitErrorTb /\ [][ApplyErrorTb]_vars

InitSource ==
    /\ PluginIdle /\ tb_filter = None /\ pc = "call" /\ result = None
    /\ args \in SourceScenarios

ApplySource ==
    /\ pc = "call"
    /\ result' = _get_scenario_source(args)
    /\ pc' = "done"
    /\ UNCHANGED <<global_config, tb_filter, calls, files, delivered, args>>

SpecSource == InitSource /\ [][ApplySource]_vars

InitBuild ==
    /\ PluginIdle /\ tb_filter = None /\ pc = "call" /\ result = None
    /\ args \in [scenario_result : ScenarioResults, project_dir : {ProjectDir},
                 builder : [include_variables : BOOLEAN, tb_limit : {DefaultTbLimit}]]

ApplyBuild ==
    /\ pc = "call"
    /\ result' = build(args.scenario_result, args.project_dir, args.builder)
    /\ tb_filter' = IF "filter_tb" \in result'.reached THEN "TracebackFilter" ELSE tb_filter
    /\ pc' = "done"
    /\ UNCHANGED <<global_config, calls, files, delivered, args>>

SpecBuild == InitBuild /\ [][ApplyBuild]_vars

\* the scope varies, the rest is one failed scenario of the project
VariablesResults ==
    {[scenario |-> [subject |-> <<"Login with valid credentials">>,
                    path |-> ProjectDir \o <<<<"tests">>, <<"login.py">>>>,
                    orig |-> NoArtifact, file |-> BuildFile],
      step_results |-> <<[step_name |-> <<"Submit">>, status |-> "failed",
                          elapsed |-> 5, exc_info |-> e]>>,
      scope |-> sc] : e \in ExcInfos, sc \in Scopes}

InitVariables ==
    /\ PluginIdle /\ tb_filter = None /\ pc = "call" /\ result = None
    /\ args \in [scenario_result : VariablesResults, project_dir : {ProjectDir},
                 builder : [include_variables : BOOLEAN, tb_limit : {DefaultTbLimit}]]

SpecVariables == InitVariables /\ [][ApplyBuild]_vars

---------------------------------------------------------------------------
(* DebugPromptPlugin.                                                      *)

Configs == {[project_dir |-> ProjectDir], [project_dir |-> OtherDir]}

\* vedro.create_tmp_file(prefix="prompt_", suffix=".md"): a new file, named
\* as no other, in the temporary directory the host keeps under the project
create_tmp_file(project_dir, n) ==
    project_dir \o <<<<".vedro">>, <<"tmp">>, <<"prompt_", ToString(n), ".md">>>>

Effect(raised, made_calls, made_files, details, reached) ==
    [raised |-> raised, calls |-> made_calls, files |-> made_files,
     extra_details |-> details, reached |-> reached]

(* DebugPromptPlugin.on_scenario_failed, n files having been made before:  *)
(* the exception that leaves the handler, the build calls and files it     *)
(* made and the extra details it added to the scenario result.             *)

OnScenarioFailedNoAssert(config, scenario_result, n) ==
    IF config = NoObject THEN Effect("AttributeError", <<>>, <<>>, <<>>, {})
    ELSE
    LET prompt == build(scenario_result, config.project_dir, DefaultBuilder)
        call == [scenario_result |-> scenario_result, project_dir |-> config.project_dir]
        prompt_file == create_tmp_file(config.project_dir, n + 1)
        written == [path |-> prompt_file, text |-> prompt.doc]
        prompt_file_path == RelativeTo(prompt_file, config.project_dir)
    IN  IF prompt.raised # None
        THEN Effect(prompt.raised, <<call>>, <<>>, <<>>, prompt.reached)
        ELSE IF prompt_file_path.raised # None
        THEN Effect(prompt_file_path.raised, <<call>>, <<written>>, <<>>, prompt.reached)
        ELSE Effect(None, <<call>>, <<written>>,
                    <<<<"AI Debug Prompt: ">> \o StrOfRelPath(prompt_file_path.value)>>,
                    prompt.reached)

on_scenario_failed(config, scenario_result, n) ==
    IF config = NoObject THEN Effect("AssertionError", <<>>, <<>>, <<>>, {})
    ELSE
    LET prompt == build(scenario_result, config.project_dir, DefaultBuilder)
        call == [scenario_result |-> scenario_result, project_dir |-> config.project_dir]
        prompt_file == create_tmp_file(config.project_dir, n + 1)
        written == [path |-> prompt_file, text |-> prompt.doc]
        prompt_file_path == RelativeTo(prompt_file, config.project_dir)
    IN  IF prompt.raised # None
        THEN Effect(prompt.raised, <<call>>, <<>>, <<>>, prompt.reached)
        ELSE IF prompt_file_path.raised # None
        THEN Effect(prompt_file_path.raised, <<call>>, <<written>>, <<>>, prompt.reached)
        ELSE Effect(None, <<call>>, <<written>>,
                    <<<<"AI Debug Prompt: ">> \o StrOfRelPath(prompt_file_path.value)>>,
                    prompt.reached)

PluginScenario(dir) ==
    [subject |-> <<"Login with valid credentials">>,
     path |-> dir \o <<<<"tests">>, <<"login.py">>>>,
     orig |-> [ok |-> TRUE, lines |-> BuildFile.lines, start |-> 1], file |-> BuildFile]

PassedStep ==
    [step_name |-> <<"Enter credentials">>, status |-> "passed", elapsed |-> 12,
     exc_info |-> NoObject]

FailedStep ==
    [step_name |-> <<"Submit">>, status |-> "failed", elapsed |-> 5,
     exc_info |-> [value |-> PlainError, traceback |-> <<VedroFrame, UserFrame("f")>>]]

\* what the host may deliver: a failed scenario of either directory, and a
\* scenario result no step of which holds an error
PluginResults ==
    {[scenario |-> PluginScenario(ProjectDir), step_results |-> <<PassedStep, FailedStep>>,
      scope |-> ExampleScope],
     [scenario |-> PluginScenario(OtherDir), step_results |-> <<PassedStep, FailedStep>>,
      scope |-> <<>>],
     [scenario |-> PluginScenario(ProjectDir), step_results |-> <<PassedStep>>,
      scope |-> <<>>]}

Init ==
    /\ global_config = NoObject
    /\ tb_filter = None
    /\ calls = <<>>
    /\ files = <<>>
    /\ delivered = <<>>
    /\ pc = "idle"
    /\ args = <<>>
    /\ result = None

(* DebugPromptPlugin.on_config_loaded                                      *)

OnConfigLoaded(config) ==
    /\ global_config' = config
    /\ UNCHANGED <<tb_filter, calls, files, delivered, pc, args, result>>

\* a ScenarioFailedEvent is dispatched and its handler runs to its end
OnScenarioFailed(scenario_result) ==
    /\ Len(delivered) < MaxEvents
    /\ LET eff == on_scenario_failed(global_config, scenario_result, Len(files))
       IN  /\ calls' = calls \o eff.calls
           /\ files' = files \o eff.files
           /\ tb_filter' = IF "filter_tb" \in eff.reached THEN "TracebackFilter"
                           ELSE tb_filter
           /\ delivered' = Append(delivered,
                  [scenario_result |-> scenario_result, config |-> global_config,
                   raised |-> eff.raised, extra_details |-> eff.extra_details,
                   calls_made |-> Len(eff.calls), files_made |-> Len(eff.files)])
    /\ UNCHANGED <<global_config, pc, args, result>>

Next ==
    \/ \E config \in Configs : OnConfigLoaded(config)
    \/ \E scenario_result \in PluginResults : OnScenarioFailed(scenario_result)

Spec == Init /\ [][Next]_vars

---------------------------------------------------------------------------
(* Path normalization.                                                     *)

Root == StrOfPath(args.project_dir)

HasDot(text) == \E i \in 1..Len(text) : text[i] = "."

\* C7 as stated: for every text and every project root, the normalized text
\* holds no occurrence of the project root, and normalizing it again
\* returns it unchanged.
C7_CleanupCompleteAndIdempotent ==
    pc = "done" =>
        /\ ~Occurs(Root, result)
        /\ _cleanup_line(result, args.project_dir) = result

\* C7 as amended: a text without the project root is returned unchanged and
\* a text with it is changed; when the project root string holds no ".",
\* the normalized text holds no occurrence of the root and normalizing it
\* again returns it unchanged.
C7_CleanupCompleteForDotFreeRoot ==
    pc = "done" =>
        /\ ~Occurs(Root, args.line) => result = args.line
        /\ Occurs(Root, args.line) /\ Root # <<".">> => result # args.line
        /\ ~HasDot(Root) =>
              /\ ~Occurs(Root, result)
              /\ _cleanup_line(result, args.project_dir) = result

\* two occurrences of a dot-free root, both replaced
C7_Witness ==
    /\ pc = "done"
    /\ args.project_dir = <<<<"a">>>>
    /\ args.line = <<"/", "a", "/", "a">>
    /\ result = <<".", ".">>

---------------------------------------------------------------------------
(* Failure message formatting.                                             *)

Structured == IsAssertionError(args) /\ args.left # Nil

LeftOnlyForm == <<args.cls, ": assert ", Repr(args.left)>>

ComparisonForm ==
    <<args.cls, ": assert ", Repr(args.left), " ", args.operator, " ", Repr(args.right)>>

\* C8 as stated: a non-assertion exception or an assertion without a left
\* operand renders as its str; with a left operand, the comparison form is
\* used only when operator and right are both present and the left-only
\* form only when both are absent.
C8_LeftOnlyFormOnlyWhenBothAbsent ==
    pc = "done" =>
        /\ ~Structured => result = args.str
        /\ Structured /\ result = ComparisonForm =>
              args.operator # Nil /\ args.right # Nil
        /\ Structured /\ result = LeftOnlyForm =>
              args.operator = Nil /\ args.right = Nil

\* C8 as amended: a non-assertion exception or an assertion without a left
\* operand renders as its str; with a left operand, the comparison form is
\* used when operator and right are both present, and the left-only form
\* whenever at least one of them is absent.
C8_ThreeForms ==
    pc = "done" =>
        /\ ~Structured => result = args.str
        /\ Structured /\ args.operator # Nil /\ args.right # Nil =>
              result = ComparisonForm
        /\ Structured /\ (args.operator = Nil \/ args.right = Nil) =>
              result = LeftOnlyForm

\* a right operand without an operator: the left-only form
C8_Witness ==
    /\ pc = "done"
    /\ args.cls = "AssertionError" /\ args.left = "1"
    /\ args.right = "2" /\ args.operator = Nil
    /\ result = <<"AssertionError", ": assert ", "1">>

---------------------------------------------------------------------------
(* Traceback truncation.                                                   *)

IsFrameLine(line) == StartsWith(line, "  File \"")

NumFrames(lines) == Cardinality({i \in 1..Len(lines) : IsFrameLine(lines[i])})

RendersInternal(lines) ==
    \E i \in 1..Len(lines) : Occurs(StrOfPath(VedroRoot), lines[i])

\* the frames of the traceback that are not host-internal
Kept == SelectSeq(args.exc_info.traceback, LAMBDA fr : ~IsInternal(fr))

\* no frame of text is repeated more than RecursiveCutoff times in a row
NoLongRun(frames) ==
    \A i \in 1..(Len(frames) - RecursiveCutoff) :
        \E j \in 1..RecursiveCutoff : ~SameFrame(frames[i], frames[i + j])

\* C10 as stated, for the limits that are not negative: for every tb_limit
\* and every traceback with more frames than tb_limit exactly tb_limit
\* frames are rendered; the rendered frames never exceed tb_limit and none
\* is host-internal.
C10_ExactlyLimitFrames ==
    pc = "done" /\ args.tb_limit >= 0 =>
        /\ Len(args.exc_info.traceback) > args.tb_limit =>
              NumFrames(result.lines) = args.tb_limit
        /\ NumFrames(result.lines) <= args.tb_limit
        /\ ~RendersInternal(result.lines)

\* C10 as amended: host-internal frames are removed first and none is
\* rendered; for tb_limit >= 0 at most tb_limit frames are rendered, starting
\* with the first frame that remains, and exactly tb_limit when more than
\* tb_limit frames remain after filtering and none repeats more than three
\* times in a row; for tb_limit < 0 at most -tb_limit frames are rendered,
\* ending with the last frame that remains.
C10_LimitAfterFilter ==
    pc = "done" =>
        LET n == NumFrames(result.lines)
            k == Len(Kept)
            limit == args.tb_limit
            shown(fr, line) == IsFrameLine(line) /\ Occurs(<<", in ", fr.name>>, line)
        IN  /\ ~RendersInternal(result.lines)
            /\ n <= k
            /\ limit >= 0 => n <= limit
            /\ limit < 0 => n <= -limit
            /\ limit >= 0 /\ k > limit /\ NoLongRun(Kept) => n = limit
            /\ limit < 0 /\ k > -limit /\ NoLongRun(Kept) => n = -limit
            /\ limit > 0 /\ k > 0 =>
                  result.lines # <<>> /\ shown(Kept[1], result.lines[1])
            /\ limit < 0 /\ k > 0 /\ NoLongRun(Kept) =>
                  result.lines # <<>> /\ shown(Kept[k], result.lines[Len(result.lines)])
            /\ tb_filter = "TracebackFilter"

\* internal frames among more frames than the limit: the limit counts what
\* remains
C10_Witness ==
    /\ pc = "done"
    /\ args.tb_limit = 2
    /\ args.exc_info.traceback =
          <<VedroFrame, UserFrame("f"), VedroFrame, UserFrame("g"), UserFrame("f")>>
    /\ NumFrames(result.lines) = 2
    /\ ~RendersInternal(result.lines)

---------------------------------------------------------------------------
(* Source recovery.                                                        *)

\* the lines of a numbered source, and the text left without the numbers
Numbered(source) == splitlines(source)

Unnumbered(source) ==
    Concat([i \in 1..Len(Numbered(source)) |->
              SubSeq(Numbered(source)[i], 3, Len(Numbered(source)[i]))])

NumberedFrom(source, start) ==
    \A i \in 1..Len(Numbered(source)) :
        /\ Numbered(source)[i][1] = Pad4(start + i - 1)
        /\ Numbered(source)[i][2] = ": "

RECURSIVE LeadingIndent(_)
LeadingIndent(text) ==
    IF StartsWith(text, IndentUnit) THEN 1 + LeadingIndent(Tail(text)) ELSE 0

WithoutIndent(text) == SelectSeq(text, LAMBDA tok : tok # IndentUnit)

\* text is the block lines with the common indentation removed: the same
\* lines, whitespace-only lines empty, the relative indentation of the
\* others kept and one of them not indented
IsDedentOf(text, lines) ==
    LET out == SplitOn(text, {"\n"})
        nonblank == {i \in 1..Len(lines) : lines[i].body # <<>>}
    IN  /\ Len(out) = Len(lines)
        /\ \A i \in 1..Len(lines) : WithoutIndent(out[i]) = lines[i].body \o <<"\n">>
        /\ \A i \in 1..Len(lines) : i \notin nonblank => out[i] = <<"\n">>
        /\ \A i, j \in nonblank :
              LeadingIndent(out[i]) - LeadingIndent(out[j])
                  = lines[i].indent - lines[j].indent
        /\ nonblank # {} => \E i \in nonblank : LeadingIndent(out[i]) = 0

\* C6: source recovery takes the first attempt that succeeds.  With the
\* artifact introspected, the source is its dedented block numbered from the
\* block's first line and the file is not read; else with the file readable,
\* the whole file numbered from 1 and not dedented; else the empty source
\* with start = end = -1.  No exception leaves _get_scenario_source.
C6_SourceRecoveryChain ==
    pc = "done" =>
        /\ result.raised = None
        /\ args.orig.ok =>
              /\ ~result.file_read
              /\ result.start = args.orig.start
              /\ NumberedFrom(result.source, args.orig.start)
              /\ result.end = result.start + Len(Numbered(result.source)) - 1
              /\ IsDedentOf(Unnumbered(result.source), args.orig.lines)
        /\ ~args.orig.ok /\ args.file.readable =>
              /\ result.file_read
              /\ result.start = 1
              /\ NumberedFrom(result.source, 1)
              /\ result.end = Len(Numbered(result.source))
              /\ Unnumbered(result.source) = LinesText(args.file.lines)
        /\ ~args.orig.ok /\ ~args.file.readable =>
              /\ result.source = <<>>
              /\ result.start = -1
              /\ result.end = -1

\* the artifact cannot be introspected and the file, indented, can be read
C6_Witness ==
    /\ pc = "done"
    /\ ~args.orig.ok
    /\ args.file.readable
    /\ args.file.lines = <<[indent |-> 1, body |-> <<"x">>], [indent |-> 2, body |-> <<"x">>]>>
    /\ result.source = <<"   1", ": ", IndentUnit, "x", "\n",
                         "   2", ": ", IndentUnit, IndentUnit, "x", "\n">>
    /\ result.start = 1 /\ result.end = 2

---------------------------------------------------------------------------
(* The document.                                                           *)

HasError(scenario_result) ==
    \E i \in 1..Len(scenario_result.step_results) :
        scenario_result.step_results[i].exc_info # NoObject

Returned == pc = "done" /\ result.raised = None

RECURSIVE Sum(_, _)
Sum(f, S) ==
    IF S = {} THEN 0
    ELSE LET x == CHOOSE y \in S : TRUE IN f[x] + Sum(f, S \ {x})

\* the occurrences of header h in the texts handed to the template
Inserted(h) == Sum([f \in Fields |-> Count(result.kwargs[f], h)], Fields)

FirstIndex(text, tok) ==
    CHOOSE i \in 1..Len(text) : text[i] = tok /\ \A j \in 1..(i - 1) : text[j] # tok

ExactlyOnceInOrder(doc) ==
    /\ \A i \in 1..Len(Headers) : Count(doc, Headers[i]) = 1
    /\ \A i \in 1..(Len(Headers) - 1) :
          FirstIndex(doc, Headers[i]) < FirstIndex(doc, Headers[i + 1])

\* hs occur in text in this order, other tokens between them
RECURSIVE InOrder(_, _)
InOrder(text, hs) ==
    IF hs = <<>> THEN TRUE
    ELSE IF Count(text, Head(hs)) = 0 THEN FALSE
    ELSE InOrder(SubSeq(text, FirstIndex(text, Head(hs)) + 1, Len(text)), Tail(hs))

\* C1 as stated, for the documents build returns: each of the seven section
\* headers occurs exactly once and in the fixed order, whatever text the
\* scenario contributes to the sections.
C1_HeadersExactlyOnceInOrder ==
    Returned => ExactlyOnceInOrder(result.doc)

\* C1 as amended: in every document build returns, each section header
\* occurs once more than in the texts inserted into the template and the
\* seven headers occur in the fixed order; so each occurs exactly once and
\* in that order when no inserted text holds a header.
C1_TemplateHeadersOnceInOrder ==
    Returned =>
        /\ \A i \in 1..Len(Headers) :
              Count(result.doc, Headers[i]) = 1 + Inserted(Headers[i])
        /\ InOrder(result.doc, Headers)
        /\ (\A i \in 1..Len(Headers) : Inserted(Headers[i]) = 0) =>
              ExactlyOnceInOrder(result.doc)

\* a document of a scenario whose texts hold no header
C1_Witness ==
    /\ Returned
    /\ HasError(args.scenario_result)
    /\ \A i \in 1..Len(Headers) : Inserted(Headers[i]) = 0
    /\ ExactlyOnceInOrder(result.doc)

\* C2: when no step holds exception info, build fails with an assertion
\* error and returns no document, before source recovery, traceback
\* filtering or formatting is attempted.
C2_NoErrorNoDocument ==
    pc = "done" /\ ~HasError(args.scenario_result) =>
        /\ result.raised = "AssertionError"
        /\ result.doc = <<>>
        /\ result.reached = {"_get_error"}
        /\ tb_filter = None

\* a step that failed and holds no exception info
C2_Witness ==
    /\ pc = "done"
    /\ \E i \in 1..Len(args.scenario_result.step_results) :
          /\ args.scenario_result.step_results[i].status = "failed"
          /\ args.scenario_result.step_results[i].exc_info = NoObject
    /\ ~HasError(args.scenario_result)
    /\ result.raised = "AssertionError"

\* C5: for every scenario result with an errored step and every project
\* root, also one that is no ancestor of the scenario's file, build returns
\* a document.
C5_BuildReturnsForEveryErroredResult ==
    pc = "done" /\ HasError(args.scenario_result) =>
        /\ result.raised = None
        /\ result.doc # <<>>

---------------------------------------------------------------------------
(* The VARIABLES section.                                                  *)

VariablesBody == result.kwargs["{variables}"]

Visible == SelectSeq(args.scenario_result.scope, LAMBDA it : it.key[1] # "_")

\* the document ends with the VARIABLES header and its body
EndsWithVariables(doc, body) ==
    /\ Len(doc) >= Len(body) + 2
    /\ SubSeq(doc, Len(doc) - Len(body) - 1, Len(doc)) = <<"## VARIABLES", "\n">> \o body

\* C9: with include_variables disabled the section body is the dash for
\* every scope, and results that differ only in their scope give the same
\* document; enabled, the body is one line name = repr(value) for every key
\* that does not start with "_", in insertion order, and "No variables
\* found" when there is no such key.
C9_VariablesSection ==
    Returned =>
        /\ EndsWithVariables(result.doc, VariablesBody)
        /\ ~args.builder.include_variables =>
              /\ VariablesBody = <<EmDash>>
              /\ \A sc \in Scopes :
                    build([args.scenario_result EXCEPT !.scope = sc],
                          args.project_dir, args.builder).doc = result.doc
        /\ args.builder.include_variables /\ Visible = <<>> =>
              VariablesBody = <<"No variables found">>
        /\ args.builder.include_variables /\ Visible # <<>> =>
              LET lines == SplitOn(VariablesBody \o <<"\n">>, {"\n"})
              IN  /\ Len(lines) = Len(Visible)
                  /\ \A i \in 1..Len(Visible) :
                        lines[i] = Visible[i].key
                                     \o <<" = ", Repr(Visible[i].val), "\n">>

\* the scope {"_hidden": 2, "x": 2, "y": "s"} with inclusion enabled
C9_Witness ==
    /\ Returned
    /\ args.builder.include_variables
    /\ args.scenario_result.scope = ExampleScope
    /\ VariablesBody = <<"x", " = ", "2", "\n", "y", " = ", "'s'">>

---------------------------------------------------------------------------
(* The plugin.                                                             *)

\* C3: a scenario-failed notification delivered before any configuration
\* was loaded fails with an assertion error; the builder is not invoked, no
\* file is created and no annotation is added.
C3_FailedBeforeConfigLoaded ==
    /\ \A i \in 1..Len(delivered) :
          delivered[i].config = NoObject =>
              /\ delivered[i].raised = "AssertionError"
              /\ delivered[i].calls_made = 0
              /\ delivered[i].files_made = 0
              /\ delivered[i].extra_details = <<>>
    /\ global_config = NoObject =>
          calls = <<>> /\ files = <<>> /\ tb_filter = None

\* a failed scenario delivered first, before any configuration
C3_Witness ==
    /\ Len(delivered) = 2
    /\ delivered[1].config = NoObject
    /\ HasError(delivered[1].scenario_result)
    /\ delivered[1].raised = "AssertionError"
    /\ delivered[2].config # NoObject
    /\ delivered[2].raised = None
    /\ Len(files) = 1

AfterConfig == {i \in 1..Len(delivered) :
                   delivered[i].config # NoObject /\ HasError(delivered[i].scenario_result)}

\* C4: once a configuration is loaded, every notification for a scenario
\* result with an errored step invokes the builder with that result and the
\* project root loaded last, writes one new file and then adds one
\* annotation naming that file; after n of them there are n files and n
\* annotations.
C4_OneFileOneAnnotationPerFailure ==
    /\ \A i \in AfterConfig :
          /\ delivered[i].raised = None
          /\ delivered[i].calls_made = 1
          /\ delivered[i].files_made = 1
          /\ \E c \in 1..Len(calls) :
                /\ calls[c].scenario_result = delivered[i].scenario_result
                /\ calls[c].project_dir = delivered[i].config.project_dir
          /\ \E f \in 1..Len(files) :
                /\ IsPrefix(delivered[i].config.project_dir, files[f].path)
                /\ delivered[i].extra_details =
                      <<<<"AI Debug Prompt: ">> \o StrOfRelPath(
                          RelativeTo(files[f].path, delivered[i].config.project_dir).value)>>
    /\ Len(files) = Cardinality(AfterConfig)

=============================================================================
